---- MODULE Spec2Model ----
(***************************************************************************)
(* The blocking I/O reactor of src/io.rs (AsyncStdIO and ws_connector):    *)
(* the dispatcher `process`, the timer tasks it spawns, and the two        *)
(* forwarding loops of every websocket connection, all writing to one      *)
(* unbounded event channel.                                                *)
(*                                                                         *)
(* A step of the model is one thing a single execution context does        *)
(* without awaiting another context: one `process` call (WebSocketOpen is  *)
(* two steps, because block_on waits for connect_async), one wake-up of a  *)
(* timer task, one frame read by an inbound loop, one item written by an   *)
(* outbound loop, one frame sent by the peer.  Time is not modelled: a     *)
(* sleep of any duration ends at an arbitrary later step.                  *)
(*                                                                         *)
(* Wordlist::choose_words of src/core/wordlist.rs is modelled next to it   *)
(* as a specification of its own (SpecWords), which leaves the reactor     *)
(* untouched, as the reactor's specifications leave the Wordlist.          *)
(***************************************************************************)
EXTENDS Integers, Sequences, FiniteSets, TLC

\* ---- bounds of the model ------------------------------------------------
MaxActions     == 2     \* calls of process
MaxFrames      == 2     \* messages the read streams of all connections yield
MaxEchoActions == 4     \* calls of process in the echoing-peer scenario
MaxWords       == 3     \* largest num_words of a Wordlist
MaxLists       == 2     \* largest number of word lists of a Wordlist

\* ---- value domains ------------------------------------------------------
TimerHandles == {1, 2}          \* TimerHandle values the core mints
WSHandles    == {1, 2}          \* WSHandle values the core mints (own namespace)
Texts        == {"a", "b"}      \* payloads (opaque strings)
NoText       == "-"             \* filler of the text field where a variant has none

\* enum WSControl { Data(String), Close }
WSControl == [kind : {"Data"}, text : Texts] \cup [kind : {"Close"}, text : {NoText}]

\* tungstenite::Message as matched by the inbound loop
Message == [kind : {"Text"}, text : Texts]
             \cup [kind : {"Close", "Ping", "Pong", "Binary"}, text : {NoText}]

\* IOEvent; src is the task that placed the event on the channel (a timer
\* task index or a connection index).  No action reads src: it only lets a
\* property tell apart two connections opened under the same handle value.
TimerExpired(h, k) ==
    [type |-> "TimerExpired", h |-> h, text |-> NoText, src |-> k]
WebSocketConnectionMade(h, c) ==
    [type |-> "WebSocketConnectionMade", h |-> h, text |-> NoText, src |-> c]
WebSocketMessageReceived(h, text, c) ==
    [type |-> "WebSocketMessageReceived", h |-> h, text |-> text, src |-> c]
WebSocketConnectionLost(h, c) ==
    [type |-> "WebSocketConnectionLost", h |-> h, text |-> NoText, src |-> c]

\* IOAction, the argument of process
IOAction(op, h, text) == [op |-> op, h |-> h, text |-> text]
NoAction == IOAction("none", 0, NoText)

VARIABLES
    timers,      \* AsyncStdIO.timers : HashSet<TimerHandle>
    websockets,  \* AsyncStdIO.websockets : handle -> connection whose ws_tx it holds, 0 = no entry
    events,      \* everything sent into tx_to_core, in channel order
    ttasks,      \* the timer tasks spawned so far: [h, pc]
    conns,       \* the connections created so far (one per WebSocketOpen)
    disp,        \* the dispatcher: [pc, act, panic], act the action last passed to process
    nproc,       \* number of process calls made
    cancelled,   \* history: timer tasks that were asleep when a CancelTimer of their handle ran
    wl,          \* a Wordlist of core/wordlist.rs: [num_words, words]
    cw           \* a call of Wordlist::choose_words on wl: [pc, pos, components, out]

\* the state of the reactor
iovars == <<timers, websockets, events, ttasks, conns, disp, nproc, cancelled>>

vars == <<timers, websockets, events, ttasks, conns, disp, nproc, cancelled, wl, cw>>

\* ---- helpers ------------------------------------------------------------
RECURSIVE CountSeq(_, _)
\* number of elements of s that Test holds for; Test is a set of values
CountSeq(s, Test) ==
    IF s = <<>> THEN 0
    ELSE (IF Head(s) \in Test THEN 1 ELSE 0) + CountSeq(Tail(s), Test)

\* the connection a fresh (ws_tx, ws_rx) pair starts as: nothing queued,
\* nothing on the wire, no loop spawned yet
NewConn(h) ==
    [h    |-> h,
     st   |-> "connecting",   \* connecting | up | failed
     ctl  |-> <<>>,           \* every WSControl ever sent into ws_tx, in order
     wr   |-> 0,              \* how many of them the outbound loop has taken
     wout |-> <<>>,           \* frames written to the wire, in order
     win  |-> <<>>,           \* messages the read stream has yielded, in order
     inb  |-> "none",         \* inbound loop: none | running | lost | done
     outb |-> "none"]         \* outbound loop: none | running | done | panicked

Conns == 1..Len(conns)

RECURSIVE SumWin(_)
\* number of messages the read streams of connections 1..c have yielded
SumWin(c) == IF c = 0 THEN 0 ELSE Len(conns[c].win) + SumWin(c - 1)
FramesYielded == SumWin(Len(conns))
TTasks == 1..Len(ttasks)

\* ws_rx, the receiving end of a connection's queue, is alive until the
\* outbound loop that owns it has ended (or ws_connector panicked holding it)
ReceiverAlive(c) ==
    \/ conns[c].st = "connecting"
    \/ conns[c].st = "up" /\ conns[c].outb = "running"

\* the registry holds the only ws_tx of a connection
SenderAlive(c) == websockets[conns[c].h] = c

CloseFrame == [kind |-> "Close", text |-> NoText]

\* the websocket accepts writes: neither side has started the close handshake
\* and the read half has not failed or ended
Active(c) ==
    /\ conns[c].inb = "running"
    /\ CountSeq(conns[c].wout, {CloseFrame}) = 0

\* process can be called: the previous call has returned.  A call that
\* panicked has unwound into its caller, the core's loop, which this file
\* gives no way to resume: no further call follows a panic, while the tasks
\* already spawned keep running.
Idle == disp.pc = "idle"

Returned(a) == [pc |-> "idle", act |-> a, panic |-> "none"]
Panicked(a, why) == [pc |-> "panicked", act |-> a, panic |-> why]

\* ---- core/wordlist.rs: the values ---------------------------------------
\* no Wordlist has been built (the reactor uses none)
NoWordlist == [num_words |-> 0, words |-> <<>>]
\* choose_words has not been called
NotCalled == [pc |-> "idle", pos |-> 0, components |-> <<>>, out |-> ""]

\* ---- Init ---------------------------------------------------------------
\* AsyncStdIO::new
Init ==
    /\ timers = {}
    /\ websockets = [h \in WSHandles |-> 0]
    /\ events = <<>>
    /\ ttasks = <<>>
    /\ conns = <<>>
    /\ disp = Returned(NoAction)
    /\ nproc = 0
    /\ cancelled = {}
    /\ wl = NoWordlist
    /\ cw = NotCalled

\* ---- the dispatcher: process(action) ------------------------------------
\* StartTimer with the expiry event sent by process itself
StartTimer_ExpiresInline(h) ==
    /\ Idle
    /\ timers' = timers \cup {h}
    /\ ttasks' = Append(ttasks, [h |-> h, pc |-> "done"])
    /\ events' = Append(events, TimerExpired(h, Len(ttasks) + 1))
    /\ disp' = Returned(IOAction("StartTimer", h, NoText))
    /\ nproc' = nproc + 1
    /\ UNCHANGED <<websockets, conns, cancelled, wl, cw>>

\* StartTimer(handle, duration): insert, spawn the task, return.  The
\* duration only sets how long the task sleeps, which the model leaves open.
StartTimer(h) ==
    /\ Idle
    /\ timers' = timers \cup {h}
    /\ ttasks' = Append(ttasks, [h |-> h, pc |-> "sleeping"])
    /\ disp' = Returned(IOAction("StartTimer", h, NoText))
    /\ nproc' = nproc + 1
    /\ UNCHANGED <<websockets, events, conns, cancelled, wl, cw>>

\* TimerTask with the event sent twice
TimerTask_SendsTwice(k) ==
    /\ ttasks[k].pc = "sleeping"
    /\ ttasks' = [ttasks EXCEPT ![k].pc = "done"]
    /\ events' = events \o <<TimerExpired(ttasks[k].h, k), TimerExpired(ttasks[k].h, k)>>
    /\ UNCHANGED <<timers, websockets, conns, disp, nproc, cancelled, wl, cw>>

\* TimerTask with the handle removed from the timer registry on expiry
TimerTask_Unregisters(k) ==
    /\ ttasks[k].pc = "sleeping"
    /\ ttasks' = [ttasks EXCEPT ![k].pc = "done"]
    /\ events' = Append(events, TimerExpired(ttasks[k].h, k))
    /\ timers' = timers \ {ttasks[k].h}
    /\ UNCHANGED <<websockets, conns, disp, nproc, cancelled, wl, cw>>

\* the spawned task: sleep(dur), then tx.send(TimerExpired(handle))
TimerTask(k) ==
    /\ ttasks[k].pc = "sleeping"
    /\ ttasks' = [ttasks EXCEPT ![k].pc = "done"]
    /\ events' = Append(events, TimerExpired(ttasks[k].h, k))
    /\ UNCHANGED <<timers, websockets, conns, disp, nproc, cancelled, wl, cw>>

\* CancelTimer with the handle looked up in both registries
CancelTimer_BothRegistries(h) ==
    /\ Idle
    /\ timers' = timers \ {h}
    /\ websockets' = [websockets EXCEPT ![h] = 0]
    /\ cancelled' = cancelled \cup
           {k \in TTasks : ttasks[k].h = h /\ ttasks[k].pc = "sleeping"}
    /\ disp' = Returned(IOAction("CancelTimer", h, NoText))
    /\ nproc' = nproc + 1
    /\ UNCHANGED <<events, ttasks, conns, wl, cw>>

\* CancelTimer(handle): timers.remove(&handle)
CancelTimer(h) ==
    /\ Idle
    /\ timers' = timers \ {h}
    /\ cancelled' = cancelled \cup
           {k \in TTasks : ttasks[k].h = h /\ ttasks[k].pc = "sleeping"}
    /\ disp' = Returned(IOAction("CancelTimer", h, NoText))
    /\ nproc' = nproc + 1
    /\ UNCHANGED <<websockets, events, ttasks, conns, wl, cw>>

\* WebSocketOpen(handle, url), up to the await of connect_async inside
\* block_on: a fresh (ws_tx, ws_rx), websockets.insert(handle, ws_tx) (which
\* drops the ws_tx of an older entry of the same handle), then the caller
\* is blocked in ws_connector
WebSocketOpen(h) ==
    /\ Idle
    /\ websockets' = [websockets EXCEPT ![h] = Len(conns) + 1]
    /\ conns' = Append(conns, NewConn(h))
    /\ disp' = [pc |-> "connecting", act |-> IOAction("WebSocketOpen", h, NoText),
                panic |-> "none"]
    /\ nproc' = nproc + 1
    /\ UNCHANGED <<timers, events, ttasks, cancelled, wl, cw>>

\* ConnectOk with ConnectionMade sent once more after the loops are spawned
ConnectOk_SendsTwice ==
    /\ disp.pc = "connecting"
    /\ LET c == Len(conns) IN
        /\ events' = events \o <<WebSocketConnectionMade(conns[c].h, c),
                                  WebSocketConnectionMade(conns[c].h, c)>>
        /\ conns' = [conns EXCEPT ![c].st = "up", ![c].inb = "running",
                                  ![c].outb = "running"]
    /\ disp' = Returned(disp.act)
    /\ UNCHANGED <<timers, websockets, ttasks, nproc, cancelled, wl, cw>>

\* ws_connector once connect_async returned Ok: send ConnectionMade, split
\* the stream, spawn the inbound and the outbound loop, return to process,
\* whose block_on returns to the caller
ConnectOk ==
    /\ disp.pc = "connecting"
    /\ LET c == Len(conns) IN
        /\ events' = Append(events, WebSocketConnectionMade(conns[c].h, c))
        /\ conns' = [conns EXCEPT ![c].st = "up", ![c].inb = "running",
                                  ![c].outb = "running"]
    /\ disp' = Returned(disp.act)
    /\ UNCHANGED <<timers, websockets, ttasks, nproc, cancelled, wl, cw>>

\* ws_connector once connect_async returned Err: the unwrap panics, the
\* panic leaves block_on and process; ws_rx and tx are dropped on the way.
\* Nothing between websockets.insert and the panic removes the entry.
ConnectErr ==
    /\ disp.pc = "connecting"
    /\ conns' = [conns EXCEPT ![Len(conns)].st = "failed"]
    /\ disp' = Panicked(disp.act, "connect_async")
    /\ UNCHANGED <<timers, websockets, events, ttasks, nproc, cancelled, wl, cw>>

\* SendControl with a connection that has not sent anything yet treated as
\* unknown
SendControl_NotReady(h, item, a) ==
    IF websockets[h] = 0 \/ conns[websockets[h]].ctl = <<>>
    THEN /\ disp' = Panicked(a, "unwrap_none")
         /\ UNCHANGED conns
    ELSE IF ~ReceiverAlive(websockets[h])
    THEN /\ disp' = Panicked(a, "send_error")
         /\ UNCHANGED conns
    ELSE /\ disp' = Returned(a)
         /\ conns' = [conns EXCEPT ![websockets[h]].ctl = Append(@, item)]

\* SendControl with a missing entry skipped instead of unwrapped
SendControl_IgnoresUnknown(h, item, a) ==
    IF websockets[h] = 0
    THEN /\ disp' = Returned(a)
         /\ UNCHANGED conns
    ELSE IF ~ReceiverAlive(websockets[h])
    THEN /\ disp' = Panicked(a, "send_error")
         /\ UNCHANGED conns
    ELSE /\ disp' = Returned(a)
         /\ conns' = [conns EXCEPT ![websockets[h]].ctl = Append(@, item)]

\* self.websockets.get_mut(&handle).unwrap().send(item), then .unwrap():
\* the new value of conns, or a panic
SendControl(h, item, a) ==
    IF websockets[h] = 0
    THEN /\ disp' = Panicked(a, "unwrap_none")
         /\ UNCHANGED conns
    ELSE IF ~ReceiverAlive(websockets[h])
    THEN /\ disp' = Panicked(a, "send_error")
         /\ UNCHANGED conns
    ELSE /\ disp' = Returned(a)
         /\ conns' = [conns EXCEPT ![websockets[h]].ctl = Append(@, item)]

\* WebSocketSendMessage(handle, msg)
WebSocketSendMessage(h, msg) ==
    /\ Idle
    /\ SendControl(h, [kind |-> "Data", text |-> msg],
                   IOAction("WebSocketSendMessage", h, msg))
    /\ nproc' = nproc + 1
    /\ UNCHANGED <<timers, websockets, events, ttasks, cancelled, wl, cw>>

\* WebSocketClose with the close request put in front of the queued items
WebSocketClose_JumpsQueue(h) ==
    /\ Idle
    /\ IF websockets[h] = 0 \/ ~ReceiverAlive(websockets[h])
       THEN SendControl(h, [kind |-> "Close", text |-> NoText],
                        IOAction("WebSocketClose", h, NoText))
       ELSE /\ disp' = Returned(IOAction("WebSocketClose", h, NoText))
            /\ conns' = [conns EXCEPT ![websockets[h]].ctl =
                            SubSeq(@, 1, conns[websockets[h]].wr)
                              \o <<[kind |-> "Close", text |-> NoText]>>
                              \o SubSeq(@, conns[websockets[h]].wr + 1, Len(@))]
    /\ websockets' = IF disp'.pc = "panicked" THEN websockets
                     ELSE [websockets EXCEPT ![h] = 0]
    /\ nproc' = nproc + 1
    /\ UNCHANGED <<timers, events, ttasks, cancelled, wl, cw>>

\* WebSocketClose(handle): send WSControl::Close, then websockets.remove
WebSocketClose(h) ==
    /\ Idle
    /\ SendControl(h, [kind |-> "Close", text |-> NoText],
                   IOAction("WebSocketClose", h, NoText))
    /\ websockets' = IF disp'.pc = "panicked" THEN websockets
                     ELSE [websockets EXCEPT ![h] = 0]
    /\ nproc' = nproc + 1
    /\ UNCHANGED <<timers, events, ttasks, cancelled, wl, cw>>

\* ---- ws_connector: the inbound loop -------------------------------------
\* InboundEvents with a Close message reported twice
InboundEvents_LostTwice(h, c, m) ==
    CASE m.kind = "Text"   -> <<WebSocketMessageReceived(h, m.text, c)>>
      [] m.kind = "Close"  -> <<WebSocketConnectionLost(h, c), WebSocketConnectionLost(h, c)>>
      [] m.kind = "Ping"   -> <<>>
      [] m.kind = "Pong"   -> <<>>
      [] m.kind = "Binary" -> <<>>

\* what one message of the read stream becomes (the try_filter_map closure):
\* the events to forward into tx
InboundEvents(h, c, m) ==
    CASE m.kind = "Text"   -> <<WebSocketMessageReceived(h, m.text, c)>>
      [] m.kind = "Close"  -> <<WebSocketConnectionLost(h, c)>>
      [] m.kind = "Ping"   -> <<>>
      [] m.kind = "Pong"   -> <<>>
      [] m.kind = "Binary" -> <<>>

\* InboundLoop with the forwarded events put in front of the channel
InboundLoop_Reorders(c, m) ==
    /\ conns[c].inb = "running"
    /\ events' = InboundEvents(conns[c].h, c, m) \o events
    /\ conns' = [conns EXCEPT ![c].win = Append(@, m),
                              ![c].inb = IF m.kind = "Close" THEN "lost" ELSE @]
    /\ UNCHANGED <<timers, websockets, ttasks, disp, nproc, cancelled, wl, cw>>

\* InboundLoop with every message other than Text ending the stream
InboundLoop_StopsAtControl(c, m) ==
    /\ conns[c].inb = "running"
    /\ events' = events \o InboundEvents(conns[c].h, c, m)
    /\ conns' = [conns EXCEPT ![c].win = Append(@, m),
                              ![c].inb = IF m.kind # "Text" THEN "lost" ELSE @]
    /\ UNCHANGED <<timers, websockets, ttasks, disp, nproc, cancelled, wl, cw>>

\* one turn of read.try_filter_map(..).forward(tx): the stream yields its
\* next message m (whatever the peer sent) and the loop forwards what m maps
\* to.  The loop itself does not stop at a Close message: "lost" records
\* that the stream has yielded it, after which it yields no further message.
InboundLoop(c, m) ==
    /\ conns[c].inb = "running"
    /\ events' = events \o InboundEvents(conns[c].h, c, m)
    /\ conns' = [conns EXCEPT ![c].win = Append(@, m),
                              ![c].inb = IF m.kind = "Close" THEN "lost" ELSE @]
    /\ UNCHANGED <<timers, websockets, ttasks, disp, nproc, cancelled, wl, cw>>

\* the read stream ends (yields None) once the close handshake is over:
\* forward completes and the task finishes
InboundEnd(c) ==
    /\ conns[c].inb = "lost"
    /\ conns' = [conns EXCEPT ![c].inb = "done"]
    /\ UNCHANGED <<timers, websockets, events, ttasks, disp, nproc, cancelled, wl, cw>>

\* ---- ws_connector: the outbound loop ------------------------------------
\* OutboundFrame with the payload of a Data item lost
OutboundFrame_LosesPayload(item) ==
    IF item.kind = "Data" THEN [kind |-> "Text", text |-> "a"]
    ELSE CloseFrame

\* the map closure: WSControl -> Message
OutboundFrame(item) ==
    IF item.kind = "Data" THEN [kind |-> "Text", text |-> item.text]
    ELSE CloseFrame

\* one turn of ws_rx.map(..).forward(write): take the next queued item and
\* write its frame; a write on a websocket that is no longer active returns
\* Err, which the unwrap turns into a panic of the task
OutboundLoop(c) ==
    /\ conns[c].outb = "running"
    /\ conns[c].wr < Len(conns[c].ctl)
    /\ conns' = IF Active(c)
                THEN [conns EXCEPT ![c].wr = @ + 1,
                        ![c].wout = Append(@, OutboundFrame(conns[c].ctl[conns[c].wr + 1]))]
                ELSE [conns EXCEPT ![c].wr = @ + 1, ![c].outb = "panicked"]
    /\ UNCHANGED <<timers, websockets, events, ttasks, disp, nproc, cancelled, wl, cw>>

\* ws_rx ends once the queue is empty and its ws_tx is gone from the
\* registry: forward closes the sink (a close frame, if the websocket is
\* still active) and the task finishes
OutboundEnd(c) ==
    /\ conns[c].outb = "running"
    /\ conns[c].wr = Len(conns[c].ctl)
    /\ ~SenderAlive(c)
    /\ conns' = [conns EXCEPT ![c].outb = "done",
                   ![c].wout = IF Active(c) THEN Append(@, CloseFrame) ELSE @]
    /\ UNCHANGED <<timers, websockets, events, ttasks, disp, nproc, cancelled, wl, cw>>

process ==
    \/ \E h \in TimerHandles : StartTimer(h)
    \/ \E h \in TimerHandles : CancelTimer(h)
    \/ \E h \in WSHandles : WebSocketOpen(h)
    \/ \E h \in WSHandles, msg \in Texts : WebSocketSendMessage(h, msg)
    \/ \E h \in WSHandles : WebSocketClose(h)

ws_connector ==
    \/ ConnectOk
    \/ ConnectErr
    \/ \E c \in Conns : InboundEnd(c)
    \/ \E c \in Conns : OutboundLoop(c)
    \/ \E c \in Conns : OutboundEnd(c)

\* ---- the whole reactor with an arbitrary core and arbitrary peers --------
Next ==
    \/ nproc < MaxActions /\ process
    \/ ws_connector
    \/ \E k \in TTasks : TimerTask(k)
    \/ \E c \in Conns, m \in Message : FramesYielded < MaxFrames /\ InboundLoop(c, m)

Spec == Init /\ [][Next]_vars

\* Scheduling: async-std runs every spawned task that is ready, a sleep and
\* a connection attempt end, and a read stream whose close handshake is over
\* ends.  The core need not call process again and a peer need not send.
Fairness ==
    /\ \A k \in 1..MaxActions : WF_vars(k \in TTasks /\ TimerTask(k))
    /\ WF_vars(ConnectOk \/ ConnectErr)
    /\ \A c \in 1..MaxActions :
          WF_vars(c \in Conns /\ (InboundEnd(c) \/ OutboundLoop(c) \/ OutboundEnd(c)))

FairSpec == Spec /\ Fairness

\* the same reactor when only the timer tasks are scheduled fairly
FairTimers == Spec /\ \A k \in 1..MaxActions : WF_vars(k \in TTasks /\ TimerTask(k))

\* the same reactor when only the end of a read stream whose close
\* handshake is over is scheduled fairly
FairInbound == Spec /\ \A c \in 1..MaxActions : WF_vars(c \in Conns /\ InboundEnd(c))

\* ---- the scenario of a peer that echoes -------------------------------
\* The peer answers every frame it receives with the same frame (a text
\* frame with its payload, a close frame with a close frame) and sends
\* nothing else: the next message the read stream yields is the answer to
\* the next unanswered frame of wout.
EchoInbound(c) ==
    /\ Len(conns[c].win) < Len(conns[c].wout)
    /\ InboundLoop(c, conns[c].wout[Len(conns[c].win) + 1])

NextEcho ==
    \/ nproc < MaxEchoActions /\ \E h \in WSHandles : WebSocketOpen(h)
    \/ nproc < MaxEchoActions /\ \E h \in WSHandles, msg \in Texts : WebSocketSendMessage(h, msg)
    \/ nproc < MaxEchoActions /\ \E h \in WSHandles : WebSocketClose(h)
    \/ ConnectOk
    \/ \E c \in Conns : EchoInbound(c)
    \/ \E c \in Conns : InboundEnd(c)
    \/ \E c \in Conns : OutboundLoop(c)
    \/ \E c \in Conns : OutboundEnd(c)

SpecEcho == Init /\ [][NextEcho]_vars

\* the echo scenario with the outbound loops scheduled fairly
FairEcho ==
    SpecEcho /\ \A c \in 1..MaxEchoActions :
                   WF_vars(c \in Conns /\ (OutboundLoop(c) \/ OutboundEnd(c)))

\* ---- core/wordlist.rs: Wordlist::choose_words ----------------------------
\* the word lists a Wordlist is built from: those of the tests of
\* wordlist.rs, one of them with an empty word (vecstrings maps "." to "")
WordLists == {<<"purple">>, <<"sausages">>, <<"purple", "yellow">>, <<"", "sausages">>}
Vocabulary == {"purple", "yellow", "sausages", ""}

\* struct Wordlist { num_words, words } with at least one list, every list
\* non-empty
Wordlist ==
    [num_words : 0..MaxWords,
     words : UNION {[1..k -> WordLists] : k \in 1..MaxLists}]

\* Iterator::cycle with the position stuck at the last list
Cycle_Sticks(pos, k) == IF pos = k THEN k ELSE pos + 1

\* Iterator::cycle over k lists: after the last list the first one again
Cycle(pos, k) == IF pos = k THEN 1 ELSE pos + 1

RECURSIVE Join(_, _)
\* [String]::join(sep): the elements with sep between neighbours
Join(s, sep) ==
    IF Len(s) = 0 THEN ""
    ELSE IF Len(s) = 1 THEN s[1]
    ELSE s[1] \o sep \o Join(Tail(s), sep)

\* a Wordlist as default_wordlist or Wordlist::new builds it, the reactor
\* untouched
InitWords ==
    /\ timers = {}
    /\ websockets = [h \in WSHandles |-> 0]
    /\ events = <<>>
    /\ ttasks = <<>>
    /\ conns = <<>>
    /\ disp = Returned(NoAction)
    /\ nproc = 0
    /\ cancelled = {}
    /\ wl \in Wordlist
    /\ cw = NotCalled

\* choose_words is entered: the iterator chain starts at the first list
ChooseWordsCall ==
    /\ cw.pc = "idle"
    /\ cw' = [pc |-> "iter", pos |-> 1, components |-> <<>>, out |-> ""]
    /\ UNCHANGED <<iovars, wl>>

\* one item of words.iter().cycle().take(num_words).map(choose): the next
\* list of the cycle, and any one of its words (OsRng).  Every list is
\* non-empty, so choose never returns None.
ChooseWord ==
    /\ cw.pc = "iter"
    /\ Len(cw.components) < wl.num_words
    /\ \E i \in 1..Len(wl.words[cw.pos]) :
          cw' = [cw EXCEPT !.components = Append(@, wl.words[cw.pos][i]),
                           !.pos = Cycle(cw.pos, Len(wl.words))]
    /\ UNCHANGED <<iovars, wl>>

\* take(num_words) is exhausted: collect, then components.join("-")
ChooseWordsJoin ==
    /\ cw.pc = "iter"
    /\ Len(cw.components) = wl.num_words
    /\ cw' = [cw EXCEPT !.pc = "returned", !.out = Join(cw.components, "-")]
    /\ UNCHANGED <<iovars, wl>>

choose_words ==
    \/ ChooseWordsCall
    \/ ChooseWord
    \/ ChooseWordsJoin

SpecWords == InitWords /\ [][choose_words]_vars

\* ---- what the properties read ---------------------------------------------
\* the text fields of a sequence of records
TextOf(s) == [i \in 1..Len(s) |-> s[i].text]

IsText(m) == m.kind = "Text"
IsData(item) == item.kind = "Data"

\* the payloads of the MessageReceived events connection c placed on the
\* channel evs, in channel order
Received(evs, c) ==
    LET FromC(e) == e.type = "WebSocketMessageReceived" /\ e.src = c
                        /\ e.h = conns[c].h
    IN TextOf(SelectSeq(evs, FromC))

IsPrefix(s, t) == Len(s) <= Len(t) /\ s = SubSeq(t, 1, Len(s))

\* every TimerExpired event of handle h, whichever task sent it
ExpiredOf(h) == {TimerExpired(h, k) : k \in 1..MaxActions}
\* the timer tasks started for handle h
TasksOf(h) == {k \in TTasks : ttasks[k].h = h}

\* process(WebSocketClose(h)) has run on connection c
CloseProcessed(c) == CountSeq(conns[c].ctl, {[kind |-> "Close", text |-> NoText]}) > 0

\* ---- C1 -------------------------------------------------------------------
\* C1: a timer task that was still asleep when CancelTimer of its handle was
\* processed never places its TimerExpired event on the channel.
C1_CancelSuppressesExpiry ==
    \A k \in TTasks :
        k \in cancelled => CountSeq(events, {TimerExpired(ttasks[k].h, k)}) = 0

\* ---- C2 -------------------------------------------------------------------
\* C2: once Close(h) has been processed for a connection (its entry is out
\* of the registry), no step places a further MessageReceived of that
\* connection on the channel.
C2_NoMessageAfterClose ==
    [][\A c \in Conns :
          CloseProcessed(c) => Received(events', c) = Received(events, c)]_vars

\* ---- C3 -------------------------------------------------------------------
\* C3: when connection establishment of Open(h) has failed, h is not in the
\* registry, no ConnectionMade of that attempt is on the channel, no
\* forwarding loop was started, and the call ended in the connect panic.
C3_FailedOpenRolledBack ==
    \A c \in Conns :
        conns[c].st = "failed" =>
            /\ websockets[conns[c].h] # c
            /\ CountSeq(events, {WebSocketConnectionMade(conns[c].h, c)}) = 0
            /\ conns[c].inb = "none" /\ conns[c].outb = "none"
            /\ disp.pc = "panicked" /\ disp.panic = "connect_async"

\* ---- C4 -------------------------------------------------------------------
\* C4: a call of process with Send(h, _) or Close(h) while h has no registry
\* entry ends in the unwrap-on-None panic and changes neither the registry,
\* nor any connection (its queue included), nor the event channel.
C4_UnknownHandleFailsLoudly ==
    [][\A h \in WSHandles :
          (/\ nproc' = nproc + 1
           /\ disp'.act.op \in {"WebSocketSendMessage", "WebSocketClose"}
           /\ disp'.act.h = h
           /\ websockets[h] = 0)
          => (/\ disp'.pc = "panicked"
              /\ disp'.panic = "unwrap_none"
              /\ conns' = conns
              /\ events' = events
              /\ websockets' = websockets)]_vars

\* a Send on an unregistered handle has panicked while another connection is open
C4_Witness ==
    /\ disp.pc = "panicked" /\ disp.panic = "unwrap_none"
    /\ disp.act.op = "WebSocketSendMessage"
    /\ \E c \in Conns : conns[c].st = "up" /\ conns[c].h # disp.act.h

\* ---- C5 -------------------------------------------------------------------
\* C5: a connection whose Open succeeded has exactly one ConnectionMade on
\* the channel, one that did not has none, and every ConnectionMade on the
\* channel is the one of a connection opened under its handle.
C5_ExactlyOneConnectionMade ==
    /\ \A c \in Conns :
          CountSeq(events, {WebSocketConnectionMade(conns[c].h, c)})
              = IF conns[c].st = "up" THEN 1 ELSE 0
    /\ \A i \in 1..Len(events) :
          events[i].type = "WebSocketConnectionMade" =>
              events[i].src \in Conns /\ conns[events[i].src].h = events[i].h

\* an opened connection that has received a frame and has been closed by the core
C5_Witness ==
    \E c \in Conns :
        /\ conns[c].st = "up"
        /\ Len(conns[c].win) > 0
        /\ CloseProcessed(c)
        /\ CountSeq(events, {WebSocketConnectionMade(conns[c].h, c)}) = 1

\* ---- C6 -------------------------------------------------------------------
\* C6: for every connection, the payloads of its MessageReceived events, in
\* channel order, are exactly the payloads of the text messages its read
\* stream has yielded, in stream order.
C6_MessagesInWireOrder ==
    \A c \in Conns :
        Received(events, c) = TextOf(SelectSeq(conns[c].win, IsText))

\* two different payloads were received on one connection, with an event of
\* another task between them on the channel
C6_Witness ==
    \E c \in Conns :
        /\ Received(events, c) = <<"a", "b">>
        /\ \E i, j, l \in 1..Len(events) :
              /\ i < j /\ j < l
              /\ events[i] = WebSocketMessageReceived(conns[c].h, "a", c)
              /\ events[l] = WebSocketMessageReceived(conns[c].h, "b", c)
              /\ events[j].type = "TimerExpired"

\* ---- C7 -------------------------------------------------------------------
\* C7: with an echoing peer, on every open connection the text frames on the
\* wire are the payloads of the Sends the outbound loop has taken, in the
\* order they were processed; the MessageReceived payloads are a prefix of
\* them; and once the queue is drained and every frame answered, the
\* MessageReceived payloads are exactly the payloads sent, each once.
C7_EchoRoundTrip ==
    \A c \in Conns :
        conns[c].st = "up" =>
            LET sent  == TextOf(SelectSeq(conns[c].ctl, IsData))
                taken == TextOf(SelectSeq(SubSeq(conns[c].ctl, 1, conns[c].wr), IsData))
                wire  == TextOf(SelectSeq(conns[c].wout, IsText))
                got   == Received(events, c)
            IN  /\ wire = taken
                /\ IsPrefix(got, wire)
                /\ (conns[c].wr = Len(conns[c].ctl)
                      /\ Len(conns[c].win) = Len(conns[c].wout)) => got = sent

\* two Sends with different payloads have made the round trip, in order
C7_Witness ==
    \E c \in Conns :
        /\ TextOf(SelectSeq(conns[c].ctl, IsData)) = <<"b", "a">>
        /\ TextOf(SelectSeq(conns[c].wout, IsText)) = <<"b", "a">>
        /\ Received(events, c) = <<"b", "a">>

\* ---- C8 -------------------------------------------------------------------
\* C8: while a timer handle has been started once, at most one TimerExpired
\* of it is on the channel; and if it has been started once and not
\* cancelled, then eventually exactly one is (unless it is started again or
\* cancelled first).
C8_TimerFiresExactlyOnce ==
    /\ [](\A h \in TimerHandles :
            Cardinality(TasksOf(h)) = 1 => CountSeq(events, ExpiredOf(h)) <= 1)
    /\ \A h \in TimerHandles :
          (Cardinality(TasksOf(h)) = 1 /\ TasksOf(h) \cap cancelled = {})
            ~> \/ CountSeq(events, ExpiredOf(h)) = 1
               \/ Cardinality(TasksOf(h)) > 1
               \/ TasksOf(h) \cap cancelled # {}

\* a timer started once and never cancelled has fired
C8_Witness ==
    \E h \in TimerHandles :
        /\ Cardinality(TasksOf(h)) = 1
        /\ TasksOf(h) \cap cancelled = {}
        /\ CountSeq(events, ExpiredOf(h)) = 1

\* ---- C9 -------------------------------------------------------------------
\* C9: whenever the TimerExpired of the latest StartTimer(h) is on the
\* channel, h is not in the timer set.
C9_ExpiredTimerRemoved ==
    \A h \in TimerHandles :
        \A k \in TasksOf(h) :
            (/\ \A j \in TasksOf(h) : j <= k
             /\ CountSeq(events, {TimerExpired(h, k)}) > 0)
            => h \notin timers

\* ---- C10 ------------------------------------------------------------------
\* C10: a connection whose ConnectionLost is on the channel, and for which
\* the core has issued no Close, eventually has its registry entry removed.
C10_LostConnectionRemoved ==
    \A c \in 1..MaxActions :
        (/\ c \in Conns
         /\ CountSeq(events, {WebSocketConnectionLost(conns[c].h, c)}) > 0
         /\ ~CloseProcessed(c))
        ~> (c \in Conns /\ websockets[conns[c].h] # c)

\* the step is a call of process with action a
Processes(a) == nproc' = nproc + 1 /\ disp'.act = a

\* C11: a call process(CancelTimer(h)) returns without an error whether or
\* not h is registered, removes h from the timer registry and changes
\* nothing else: no event is sent, no timer task is touched, and the
\* websocket registry, every outbound queue and every connection's loops
\* stay as they were, also for a connection whose handle has the value h.
C11_CancelTimerFrame ==
    [][\A h \in TimerHandles :
          Processes(IOAction("CancelTimer", h, NoText)) =>
              /\ disp' = Returned(IOAction("CancelTimer", h, NoText))
              /\ timers' = timers \ {h}
              /\ events' = events
              /\ websockets' = websockets
              /\ conns' = conns
              /\ ttasks' = ttasks]_vars

\* CancelTimer(h) of a handle that is no timer has returned while a
\* connection opened under the same handle value is up and registered
C11_Witness ==
    /\ disp = Returned(IOAction("CancelTimer", 1, NoText))
    /\ TasksOf(1) = {}
    /\ websockets[1] = 1
    /\ conns[1].h = 1 /\ conns[1].st = "up" /\ conns[1].outb = "running"

\* the message the read stream of connection c yields in this step
Yields(c, m) == conns'[c].win = Append(conns[c].win, m)

\* the Ping, Pong and Binary messages
Ignored == [kind : {"Ping", "Pong", "Binary"}, text : {NoText}]

\* C12: when the read stream of a connection yields a Ping, Pong or Binary
\* message no event is sent and the connection stays as it was (inbound
\* loop running, outbound loop, queue, wire and registry entry untouched);
\* a Text message that the stream yields afterwards still appends its
\* MessageReceived event to the channel.
C12_ControlFramesIgnored ==
    [][\A c \in Conns, m \in Message :
          Yields(c, m) =>
              /\ m \in Ignored =>
                    /\ events' = events
                    /\ conns'[c] = [conns[c] EXCEPT !.win = Append(@, m)]
                    /\ conns'[c].inb = "running"
                    /\ websockets' = websockets
              /\ (IsText(m) /\ CountSeq(conns[c].win, Ignored) > 0) =>
                    events' = Append(events,
                                WebSocketMessageReceived(conns[c].h, m.text, c))]_vars

\* a connection has read an ignored message and then a Text message, whose
\* payload is the one it delivered
C12_Witness ==
    \E c \in Conns :
        /\ Len(conns[c].win) = 2
        /\ conns[c].win[1] \in Ignored
        /\ IsText(conns[c].win[2])
        /\ Received(events, c) = <<conns[c].win[2].text>>
        /\ conns[c].inb = "running"

\* the events connection c placed on the channel, in channel order
ConnEvents(c) ==
    LET FromC(e) == e.src = c /\ e.type \in {"WebSocketConnectionMade",
                        "WebSocketMessageReceived", "WebSocketConnectionLost"}
    IN SelectSeq(events, FromC)

Frames(items) == [i \in 1..Len(items) |-> OutboundFrame(items[i])]

\* C14: process(WebSocketClose(h)) on a registered handle appends the close
\* request behind everything already queued and removes h from the
\* registry, so that nothing is queued behind it; the outbound loop writes
\* the queue in order (every payload as a text frame, then the close frame),
\* writes nothing after the close frame and then terminates.
C14_CloseAfterQueuedPayloads ==
    /\ [][\A h \in WSHandles :
            (Processes(IOAction("WebSocketClose", h, NoText)) /\ websockets[h] # 0) =>
                /\ disp'.pc = "idle"
                /\ conns' = [conns EXCEPT ![websockets[h]].ctl =
                                Append(@, [kind |-> "Close", text |-> NoText])]
                /\ websockets' = [websockets EXCEPT ![h] = 0]]_vars
    /\ [](\A c \in Conns :
            CloseProcessed(c) =>
                /\ ~SenderAlive(c)
                /\ conns[c].ctl[Len(conns[c].ctl)] = [kind |-> "Close", text |-> NoText]
                /\ CountSeq(conns[c].ctl, {[kind |-> "Close", text |-> NoText]}) = 1
                /\ conns[c].wout = Frames(SubSeq(conns[c].ctl, 1, conns[c].wr))
                /\ conns[c].outb = "done" => conns[c].wout = Frames(conns[c].ctl))
    /\ \A c \in 1..MaxEchoActions :
           (c \in Conns /\ CloseProcessed(c))
               ~> (c \in Conns /\ conns[c].outb = "done"
                     /\ conns[c].wout = Frames(conns[c].ctl))

\* two payloads were queued before the close request; all three are on the
\* wire in that order, the loop has terminated and the handle is removed
C14_Witness ==
    \E c \in Conns :
        /\ Len(conns[c].ctl) = 3 /\ CloseProcessed(c)
        /\ conns[c].ctl[1].text # conns[c].ctl[2].text
        /\ conns[c].wout = <<[kind |-> "Text", text |-> conns[c].ctl[1].text],
                             [kind |-> "Text", text |-> conns[c].ctl[2].text],
                             CloseFrame>>
        /\ conns[c].outb = "done"
        /\ websockets[conns[c].h] = 0

\* the step is taken by a spawned task or by ws_connector, not by the
\* statements of process itself
TaskStep == nproc' = nproc /\ vars' # vars

\* C15: the registry (timers and websockets) is changed only by the
\* statements of process: every step of a timer task, of ws_connector, of an
\* inbound loop and of an outbound loop leaves both collections exactly as
\* they were, whatever the interleaving.
C15_RegistryOwnedByDispatcher ==
    [][TaskStep => (timers' = timers /\ websockets' = websockets)]_vars

\* a timer task has fired and an inbound loop has read a message while the
\* registry holds the timer's handle and the connection's sender
C15_Witness ==
    /\ \E k \in TTasks : ttasks[k].pc = "done" /\ ttasks[k].h \in timers
    /\ \E c \in Conns : conns[c].win # <<>> /\ websockets[conns[c].h] = c

\* the action that created the handle event e refers to has been processed:
\* a StartTimer(e.h) spawned the timer task that sends e, or a
\* WebSocketOpen(e.h) registered the connection that sends e
Created(e) ==
    IF e.type = "TimerExpired"
    THEN e.src \in TTasks /\ ttasks[e.src].h = e.h
    ELSE e.src \in Conns /\ conns[e.src].h = e.h

\* C16: whenever an event is placed on the channel, the StartTimer(h) or
\* WebSocketOpen(h) that created the handle h it refers to had already been
\* processed before that step; the channel only ever grows at its end.
C16_NoEventBeforeCreation ==
    [][/\ Len(events') >= Len(events)
       /\ SubSeq(events', 1, Len(events)) = events
       /\ \A i \in (Len(events) + 1)..Len(events') : Created(events'[i])]_vars

\* the channel holds the expiry of a started timer and a message of an
\* opened connection
C16_Witness ==
    /\ \E k \in TTasks : TimerExpired(ttasks[k].h, k) \in {events[i] : i \in 1..Len(events)}
    /\ \E c \in Conns : Received(events, c) # <<>>

\* C17: a fatal error aborts only the operation that raised it: after a call
\* of process has failed (connect failed, handle unknown, queue closed) the
\* reactor accepts the next action, as long as the core has one to pass, and
\* the timer tasks and loops of other handles can still run.
C17_ErrorAbortsOnlyOperation ==
    (disp.pc = "panicked" /\ nproc < MaxActions) =>
        /\ ENABLED process
        /\ \A k \in TTasks : ttasks[k].pc = "sleeping" => ENABLED TimerTask(k)

\* C18: process never keeps its caller waiting for network I/O: while the
\* connection attempt of a WebSocketOpen is still pending the call has
\* already returned and the next action can be passed, just as after a
\* StartTimer whose sleep is still pending.
C18_OpenReturnsWhilePending ==
    /\ \A c \in Conns :
           conns[c].st = "connecting" =>
               (Idle /\ (nproc < MaxActions => ENABLED process))
    /\ \A k \in TTasks :
           (ttasks[k].pc = "sleeping" /\ disp.act = IOAction("StartTimer", ttasks[k].h, NoText))
               => Idle

\* C19: once process(WebSocketOpen(h)) has returned, a WebSocketSendMessage
\* (h, text) is accepted and queued whether or not the core has received
\* ConnectionMade(h) yet (no step of the reactor depends on what the core
\* has taken from the channel): h is in the registry, ConnectionMade(h) is
\* already on the channel, the call returns with the payload appended to the
\* connection's queue, and the payload is eventually written to the wire as
\* a text frame, in queue order.
C19_SendRightAfterOpen ==
    /\ [][\A h \in WSHandles, msg \in Texts :
            (Processes(IOAction("WebSocketSendMessage", h, msg)) /\ websockets[h] # 0) =>
                LET c == websockets[h] IN
                /\ conns[c].h = h /\ conns[c].st = "up"
                /\ CountSeq(events, {WebSocketConnectionMade(h, c)}) = 1
                /\ disp'.pc = "idle"
                /\ conns' = [conns EXCEPT ![c].ctl =
                                Append(@, [kind |-> "Data", text |-> msg])]
                /\ websockets' = websockets]_vars
    /\ [](\A c \in Conns :
            IsPrefix(Frames(SubSeq(conns[c].ctl, 1, conns[c].wr)), conns[c].wout))
    /\ \A c \in 1..MaxEchoActions :
           (c \in Conns /\ conns[c].wr < Len(conns[c].ctl))
               ~> (c \in Conns /\ conns[c].wr = Len(conns[c].ctl))

\* the action right after a WebSocketOpen was a Send on its handle, passed
\* while ConnectionMade was the only event on the channel; the payload is
\* on the wire
C19_Witness ==
    /\ nproc = 2
    /\ disp.pc = "idle" /\ disp.act.op = "WebSocketSendMessage"
    /\ websockets[disp.act.h] = 1
    /\ events = <<WebSocketConnectionMade(disp.act.h, 1)>>
    /\ conns[1].ctl = <<[kind |-> "Data", text |-> disp.act.text]>>
    /\ conns[1].wout = <<[kind |-> "Text", text |-> disp.act.text]>>

\* the elements of a list
Range(s) == {s[i] : i \in 1..Len(s)}

\* C20: for a Wordlist with num_words = n and k >= 1 non-empty lists,
\* choose_words returns n words joined by "-" (the empty string for n = 0),
\* the i-th of them (i = 0 .. n-1) a member of list number i mod k.
C20_ChooseWordsCycles ==
    cw.pc = "returned" =>
        LET n == wl.num_words
            k == Len(wl.words)
        IN \E ws \in [1..n -> Vocabulary] :
              /\ \A i \in 0..(n - 1) : ws[i + 1] \in Range(wl.words[(i % k) + 1])
              /\ cw.out = Join(ws, "-")

\* three words were asked of two lists: the third comes from the first
\* list again
C20_Witness ==
    /\ cw.pc = "returned"
    /\ wl.num_words = 3
    /\ wl.words = <<(<<"purple", "yellow">>), (<<"sausages">>)>>
    /\ cw.out = "yellow-sausages-purple"

====
